---- MODULE Spec2Model ----
(***************************************************************************)
(* Conway's Game of Life, simpleGOL.py: the Board class (the sparse set of *)
(* live cells, the neighbour expansion, the transition rule and the        *)
(* accumulated bounding box) and the Game loop that drives it.             *)
(*   Spec       one board, calls of Board.Generate_next_state              *)
(*   SpecSeq    two boards constructed from sequences with the same cells  *)
(*   SpecShift  two boards, the second's seed moved on the plane           *)
(*   SpecLoop   Generate_next_state, one candidate of its loop at a time   *)
(*   SpecDraw   calls of Generate_next_state and Board.Draw in any order   *)
(*   SpecGame   Game.RunGameLoop: events, Tick, Draw                       *)
(***************************************************************************)
EXTENDS Integers, Sequences, FiniteSets

(* ------------------------------------------------------------------ *)
(* Bounds of the model                                                  *)
(* ------------------------------------------------------------------ *)

\* Seeds are drawn from the cells (x, y) with x in -1..1 and y in -1..MaxSeedY.
MaxSeedY == 1

\* Calls of Generate_next_state made on one board.
MaxCalls == 8

\* The Life rule "over the whole plane" is evaluated on the bounding box of the
\* live set widened by this many cells on every side.
Margin == 2

\* Longest sequence handed to the constructor in SpecSeq.
MaxLen == 4

\* Calls of Generate_next_state made on one board in SpecDraw and in SpecLoop.
MaxFewCalls == 2

\* Calls of Game.Tick made in SpecGame.
MaxTicks == 107

\* Calls of Board.Draw made in SpecDraw.
MaxDraws == 2

(* ------------------------------------------------------------------ *)
(* Program constants                                                    *)
(* ------------------------------------------------------------------ *)

\* Board.__init__: self.min_x = 100, self.min_y = 100
INIT_MIN == 100

\* Board.__init__: self.max_x = -100, self.max_y = -100
INIT_MAX == -100

\* Board.Draw: min_dimension = 50
min_dimension == 50

\* Game.__init__: self.ttu = 2
TTU == 2

\* Game.__init__: self.ttn = 100
TTN == 100

\* main: size = (800, 800)
SCREEN == 800

(* ------------------------------------------------------------------ *)
(* State                                                                *)
(* ------------------------------------------------------------------ *)

VARIABLES
    live,       \* Board.live: the set of live cells <<x, y>>
    previous,   \* Board.previous
    state,      \* Board.state: the generation counter
    min_x,      \* Board.min_x
    max_x,      \* Board.max_x
    min_y,      \* Board.min_y
    max_y,      \* Board.max_y
    seed,       \* history: the set of cells the board was constructed from
    ever,       \* history: every cell that has been in live
    calls,      \* history: calls of Generate_next_state made
    liveCalls,  \* history: those of them made while live was non-empty
    cellsA,     \* SpecSeq: the sequence the board was constructed from
    cellsB,     \* SpecSeq: the sequence the second board was constructed from
    other,      \* SpecSeq, SpecShift: the second board
    shift,      \* SpecShift: where the second board's seed lies from the first's
    pc,         \* SpecLoop: "idle", or "loop" inside Generate_next_state's for loop
    todo,       \* SpecLoop: the candidates the for loop has not yet visited
    before,     \* SpecLoop history: the board as it was when the call began
    drawn,      \* history: calls of Board.Draw made
    pixels,     \* Board.Draw: the local pixels the last call computed
    raised,     \* Board.Draw raised ZeroDivisionError
    ttn,        \* Game.ttn
    ticks,      \* SpecGame history: calls of Game.Tick made
    at,         \* SpecGame: the place in RunGameLoop's body
    undrawn     \* SpecGame history: steps made since the last Draw

secondVars == <<cellsA, cellsB, other, shift>>
loopVars == <<pc, todo, before>>
drawVars == <<drawn, pixels, raised>>
gameVars == <<ttn, ticks, at, undrawn>>

vars == <<live, previous, state, min_x, max_x, min_y, max_y,
          seed, ever, calls, liveCalls, secondVars, loopVars, drawVars, gameVars>>

(* ------------------------------------------------------------------ *)
(* Helpers                                                              *)
(* ------------------------------------------------------------------ *)

\* Python's min(a, b) and max(a, b) on two integers.
min2(a, b) == IF a <= b THEN a ELSE b
max2(a, b) == IF a >= b THEN a ELSE b

\* Python's min(...) and max(...) over a non-empty collection of integers.
minOf(S) == CHOOSE m \in S : \A v \in S : m <= v
maxOf(S) == CHOOSE m \in S : \A v \in S : m >= v

\* Python's set(sequence): the distinct elements of the sequence.
setOf(s) == {s[i] : i \in 1..Len(s)}

\* The cells of S moved by (dx, dy).
Shift(S, dx, dy) == {<<c[1] + dx, c[2] + dy>> : c \in S}

(* ------------------------------------------------------------------ *)
(* Board                                                                *)
(* ------------------------------------------------------------------ *)

\* Board.expand: the 3x3 block around the cell, the cell included
\* (range(-1, 2) is -1, 0, 1).
expandNarrow(cell) ==
    {<<cell[1] + a, cell[2] + b>> : a \in -1..0, b \in -1..0}

expandClipped(cell) ==
    {c \in {<<cell[1] + a, cell[2] + b>> : a \in -1..1, b \in -1..1} :
        /\ c[1] \in INIT_MAX..INIT_MIN
        /\ c[2] \in INIT_MAX..INIT_MIN}

expandWide(cell) ==
    {<<cell[1] + a, cell[2] + b>> : a \in -2..2, b \in -2..2}

expand(cell) ==
    {<<cell[1] + a, cell[2] + b>> : a \in -1..1, b \in -1..1}

\* Board.expansion: the union of expand(cell) over the cells of positions.
expansion(positions) == UNION {expand(cell) : cell \in positions}

\* Board.transition: neighbours is expand(cell) without the cell, intersected
\* with state; the cell lives on 3 of them, or on 2 if it is in state.
transitionBirthOnTwo(cell, st) ==
    LET neighbours == (expand(cell) \ {cell}) \cap st
    IN  Cardinality(neighbours) = 3 \/ Cardinality(neighbours) = 2

transitionNoSurvival(cell, st) ==
    LET neighbours == (expand(cell) \ {cell}) \cap st
    IN  Cardinality(neighbours) = 3

transition(cell, st) ==
    LET neighbours == (expand(cell) \ {cell}) \cap st
    IN  \/ Cardinality(neighbours) = 3
        \/ (Cardinality(neighbours) = 2 /\ cell \in st)

\* Board.update_boundaries on the board record b: nothing when live is empty,
\* else every bound is widened to the tight box of live.
update_boundariesTight(b) ==
    IF b.live = {} THEN b
    ELSE [b EXCEPT !.min_x = minOf({c[1] : c \in b.live}),
                   !.max_x = maxOf({c[1] : c \in b.live}),
                   !.min_y = minOf({c[2] : c \in b.live}),
                   !.max_y = maxOf({c[2] : c \in b.live})]

update_boundariesReset(b) ==
    IF b.live = {}
    THEN [b EXCEPT !.min_x = INIT_MIN, !.max_x = INIT_MAX,
                   !.min_y = INIT_MIN, !.max_y = INIT_MAX]
    ELSE [b EXCEPT !.min_x = min2(b.min_x, minOf({c[1] : c \in b.live})),
                   !.max_x = max2(b.max_x, maxOf({c[1] : c \in b.live})),
                   !.min_y = min2(b.min_y, minOf({c[2] : c \in b.live})),
                   !.max_y = max2(b.max_y, maxOf({c[2] : c \in b.live}))]

update_boundaries(b) ==
    IF b.live = {} THEN b
    ELSE [b EXCEPT !.min_x = min2(b.min_x, minOf({c[1] : c \in b.live})),
                   !.max_x = max2(b.max_x, maxOf({c[1] : c \in b.live})),
                   !.min_y = min2(b.min_y, minOf({c[2] : c \in b.live})),
                   !.max_y = max2(b.max_y, maxOf({c[2] : c \in b.live}))]

\* Board.__init__ on the sequence initial_cells.
BoardInitHeadOnly(initial_cells) ==
    update_boundaries([live     |-> IF initial_cells = << >> THEN {}
                                    ELSE {initial_cells[1]},
                       previous |-> {},
                       state    |-> 0,
                       min_x    |-> INIT_MIN,
                       max_x    |-> INIT_MAX,
                       min_y    |-> INIT_MIN,
                       max_y    |-> INIT_MAX])

BoardInitUnitBox(initial_cells) ==
    update_boundaries([live     |-> setOf(initial_cells),
                       previous |-> {},
                       state    |-> 0,
                       min_x    |-> 1,
                       max_x    |-> -1,
                       min_y    |-> 1,
                       max_y    |-> -1])

BoardInit(initial_cells) ==
    update_boundaries([live     |-> setOf(initial_cells),
                       previous |-> {},
                       state    |-> 0,
                       min_x    |-> INIT_MIN,
                       max_x    |-> INIT_MAX,
                       min_y    |-> INIT_MIN,
                       max_y    |-> INIT_MAX])

\* Board.Generate_next_state on the board record b: return when live is empty;
\* else count the generation, copy live to previous, build the candidates from
\* live, refill live with the candidates that transition against previous, and
\* update the boundaries.
Generate_next_stateNoReturn(b) ==
    LET counted   == [b EXCEPT !.state = b.state + 1, !.previous = b.live]
        candidate == expansion(counted.live)
        refilled  == [counted EXCEPT !.live =
                         {cell \in candidate : transition(cell, counted.previous)}]
    IN  update_boundaries(refilled)

Generate_next_stateCountLate(b) ==
    IF Cardinality(b.live) = 0 THEN b
    ELSE LET copied    == [b EXCEPT !.previous = b.live]
             candidate == expansion(copied.live)
             refilled  == [copied EXCEPT !.live =
                              {cell \in candidate : transition(cell, copied.previous)}]
             counted   == [refilled EXCEPT !.state =
                              IF refilled.live = {} THEN b.state ELSE b.state + 1]
         IN  update_boundaries(counted)

Generate_next_state(b) ==
    IF Cardinality(b.live) = 0 THEN b
    ELSE LET counted   == [b EXCEPT !.state = b.state + 1, !.previous = b.live]
             candidate == expansion(counted.live)
             refilled  == [counted EXCEPT !.live =
                              {cell \in candidate : transition(cell, counted.previous)}]
         IN  update_boundaries(refilled)

\* Board.Draw on the board record b, its assignments to the bounds: when the
\* box is narrower or lower than min_dimension, each bound is widened to
\* min_dimension // 2 from the centre of the box, if that is further out.
Draw_boundsRecentre(b) ==
    LET width    == b.max_x - b.min_x + 1
        height   == b.max_y - b.min_y + 1
        center_x == (b.min_x + b.max_x) \div 2
        center_y == (b.min_y + b.max_y) \div 2
    IN  IF width < min_dimension \/ height < min_dimension
        THEN [b EXCEPT !.min_x = center_x - min_dimension \div 2,
                       !.max_x = center_x + min_dimension \div 2,
                       !.min_y = center_y - min_dimension \div 2,
                       !.max_y = center_y + min_dimension \div 2]
        ELSE b

Draw_bounds(b) ==
    LET width    == b.max_x - b.min_x + 1
        height   == b.max_y - b.min_y + 1
        center_x == (b.min_x + b.max_x) \div 2
        center_y == (b.min_y + b.max_y) \div 2
    IN  IF width < min_dimension \/ height < min_dimension
        THEN [b EXCEPT !.min_x = min2(b.min_x, center_x - min_dimension \div 2),
                       !.max_x = max2(b.max_x, center_x + min_dimension \div 2),
                       !.min_y = min2(b.min_y, center_y - min_dimension \div 2),
                       !.max_y = max2(b.max_y, center_y + min_dimension \div 2)]
        ELSE b

\* Board.Draw on the board record b, its divisors width + 1 and height + 1,
\* taken from the bounds as they were when the call began.
Draw_divisors(b) ==
    <<b.max_x - b.min_x + 1 + 1, b.max_y - b.min_y + 1 + 1>>

\* Board.Draw on the board record b, on a screen of screen_width by
\* screen_height: the local pixels (// is the floor division, as \div is).
Draw_pixels(b, screen_width, screen_height) ==
    min2(screen_width \div Draw_divisors(b)[1],
         screen_height \div Draw_divisors(b)[2])

(* ------------------------------------------------------------------ *)
(* The board as a state machine                                         *)
(* ------------------------------------------------------------------ *)

\* The board held in the variables, as a record.
Self ==
    [live |-> live, previous |-> previous, state |-> state,
     min_x |-> min_x, max_x |-> max_x, min_y |-> min_y, max_y |-> max_y]

\* The variables take the fields of the board record b.
Becomes(b) ==
    /\ live' = b.live
    /\ previous' = b.previous
    /\ state' = b.state
    /\ min_x' = b.min_x
    /\ max_x' = b.max_x
    /\ min_y' = b.min_y
    /\ max_y' = b.max_y

Holds(b) ==
    /\ live = b.live
    /\ previous = b.previous
    /\ state = b.state
    /\ min_x = b.min_x
    /\ max_x = b.max_x
    /\ min_y = b.min_y
    /\ max_y = b.max_y

\* The cells seeds are drawn from, and where on the plane a seed is put: at the
\* origin, or beyond the initial values of the bounds.
SeedCells == {<<x, y>> : x \in -1..1, y \in -1..MaxSeedY}
Offsets == {<<0, 0>>, <<INIT_MIN + INIT_MIN, INIT_MAX + INIT_MAX>>}
Seeds == {Shift(S, o[1], o[2]) : S \in SUBSET SeedCells, o \in Offsets}

\* Some sequence of the cells of S, each once.
RECURSIVE seqOf(_)
seqOf(S) ==
    IF S = {} THEN << >>
    ELSE LET c == CHOOSE c \in S : TRUE IN <<c>> \o seqOf(S \ {c})

NoSecondBoard ==
    /\ cellsA = << >>
    /\ cellsB = << >>
    /\ other = BoardInit(<< >>)
    /\ shift = <<0, 0>>

\* No call of Generate_next_state is under way.
NoLoop ==
    /\ pc = "idle"
    /\ todo = {}
    /\ before = BoardInit(<< >>)

\* Board.Draw has not been called.
NoDraw ==
    /\ drawn = 0
    /\ pixels = 0
    /\ raised = FALSE

\* Game.__init__, before RunGameLoop.
NoGame ==
    /\ ttn = TTN
    /\ ticks = 0
    /\ at = "events"
    /\ undrawn = 0

Init ==
    /\ \E S \in Seeds :
          /\ Holds(BoardInit(seqOf(S)))
          /\ seed = S
          /\ ever = S
    /\ calls = 0
    /\ liveCalls = 0
    /\ NoSecondBoard
    /\ NoLoop
    /\ NoDraw
    /\ NoGame

\* One call of board.Generate_next_state(), with the history it leaves.
Generate ==
    /\ Becomes(Generate_next_state(Self))
    /\ ever' = ever \cup live'
    /\ calls' = calls + 1
    /\ liveCalls' = IF live # {} THEN liveCalls + 1 ELSE liveCalls

Step ==
    /\ calls < MaxCalls
    /\ Generate
    /\ UNCHANGED <<seed, secondVars, loopVars, drawVars, gameVars>>

Next == Step

Spec == Init /\ [][Next]_vars

(* ------------------------------------------------------------------ *)
(* Two boards constructed from two sequences with the same cells: any   *)
(* sequence, with repetitions, and any ordering of its distinct cells   *)
(* ------------------------------------------------------------------ *)

\* The cells the sequences are drawn from.
SeqCells == {<<x, y>> : x \in 0..1, y \in 0..1}

\* The sequences of at most MaxLen cells.
CellSeqs == UNION {[1..n -> SeqCells] : n \in 0..MaxLen}

\* The sequences that hold every cell of s exactly once, in any order.
Orderings(s) ==
    {t \in [1..Cardinality(setOf(s)) -> setOf(s)] : setOf(t) = setOf(s)}

InitSeq ==
    /\ \E s \in CellSeqs : \E t \in Orderings(s) :
          /\ cellsA = s
          /\ cellsB = t
          /\ Holds(BoardInit(s))
          /\ other = BoardInit(t)
          /\ seed = setOf(s)
          /\ ever = setOf(s)
    /\ shift = <<0, 0>>
    /\ calls = 0
    /\ liveCalls = 0
    /\ NoLoop
    /\ NoDraw
    /\ NoGame

\* One call of Generate_next_state() on each of the two boards.
StepBoth ==
    /\ calls < MaxCalls
    /\ Generate
    /\ other' = Generate_next_state(other)
    /\ UNCHANGED <<seed, cellsA, cellsB, shift, loopVars, drawVars, gameVars>>

NextSeq == StepBoth

SpecSeq == InitSeq /\ [][NextSeq]_vars

(* ------------------------------------------------------------------ *)
(* Generate_next_state, one candidate of its for loop at a time         *)
(* ------------------------------------------------------------------ *)

\* The set the for loop hands to self.transition when the board is b and the
\* candidates in rest are still to be visited: self.previous.
readStateLive(b, rest) == b.live

readStateInPlace(b, rest) == b.live \cup (b.previous \cap rest)

readState(b, rest) == b.previous

\* The seeds of SpecLoop: the cells of the blinker's row, in every combination.
LoopSeeds == SUBSET {<<-1, 0>>, <<0, 0>>, <<1, 0>>}

InitLoop ==
    /\ \E S \in LoopSeeds :
          /\ Holds(BoardInit(seqOf(S)))
          /\ seed = S
          /\ ever = S
    /\ calls = 0
    /\ liveCalls = 0
    /\ NoSecondBoard
    /\ NoLoop
    /\ NoDraw
    /\ NoGame

\* Generate_next_state up to its for loop: the return on an empty live set, or
\* the count, the copy to previous, the candidates and the emptied live set.
Begin ==
    /\ pc = "idle"
    /\ calls < MaxFewCalls
    /\ before' = Self
    /\ calls' = calls + 1
    /\ IF Cardinality(live) = 0
       THEN /\ liveCalls' = liveCalls
            /\ UNCHANGED <<live, previous, state, pc, todo>>
       ELSE /\ liveCalls' = liveCalls + 1
            /\ state' = state + 1
            /\ previous' = live
            /\ todo' = expansion(live)
            /\ live' = {}
            /\ pc' = "loop"
    /\ UNCHANGED <<min_x, max_x, min_y, max_y, seed, ever,
                   secondVars, drawVars, gameVars>>

\* One pass of the for loop, on any candidate not yet visited (a Python set
\* is iterated in no particular order).
Visit ==
    /\ pc = "loop"
    /\ \E cell \in todo :
          /\ live' = IF transition(cell, readState(Self, todo \ {cell}))
                     THEN live \cup {cell}
                     ELSE live
          /\ todo' = todo \ {cell}
    /\ UNCHANGED <<previous, state, min_x, max_x, min_y, max_y, seed, ever,
                   calls, liveCalls, pc, before, secondVars, drawVars, gameVars>>

\* The end of the for loop: update_boundaries and the return.
Finish ==
    /\ pc = "loop"
    /\ todo = {}
    /\ Becomes(update_boundaries(Self))
    /\ ever' = ever \cup live
    /\ pc' = "idle"
    /\ UNCHANGED <<seed, calls, liveCalls, todo, before,
                   secondVars, drawVars, gameVars>>

NextLoop == Begin \/ Visit \/ Finish

SpecLoop == InitLoop /\ [][NextLoop]_vars

(* ------------------------------------------------------------------ *)
(* Board.Draw and Generate_next_state, called in any order              *)
(* ------------------------------------------------------------------ *)

\* The seeds of SpecDraw: those of Spec, and the same beyond the initial bounds
\* on the x axis alone.
DrawOffsets == Offsets \cup {<<INIT_MIN + INIT_MIN, 0>>}
DrawSeeds == {Shift(S, o[1], o[2]) : S \in SUBSET SeedCells, o \in DrawOffsets}

InitDraw ==
    /\ \E S \in DrawSeeds :
          /\ Holds(BoardInit(seqOf(S)))
          /\ seed = S
          /\ ever = S
    /\ calls = 0
    /\ liveCalls = 0
    /\ NoSecondBoard
    /\ NoLoop
    /\ NoDraw
    /\ NoGame

\* One call of board.Draw(SCREEN, SCREEN, screen): the bounds are widened, then
\* pixels is computed, which raises ZeroDivisionError on a divisor of 0; the
\* rectangles go to the screen, which is no part of the board.
DrawBoard ==
    /\ Becomes(Draw_bounds(Self))
    /\ drawn' = drawn + 1
    /\ IF 0 \in {Draw_divisors(Self)[1], Draw_divisors(Self)[2]}
       THEN raised' = TRUE /\ pixels' = pixels
       ELSE raised' = FALSE /\ pixels' = Draw_pixels(Self, SCREEN, SCREEN)

Draw ==
    /\ ~raised
    /\ drawn < MaxDraws
    /\ DrawBoard
    /\ UNCHANGED <<seed, ever, calls, liveCalls, secondVars, loopVars, gameVars>>

StepFew ==
    /\ ~raised
    /\ calls < MaxFewCalls
    /\ Generate
    /\ UNCHANGED <<seed, secondVars, loopVars, drawVars, gameVars>>

NextDraw == StepFew \/ Draw

SpecDraw == InitDraw /\ [][NextDraw]_vars

(* ------------------------------------------------------------------ *)
(* Game: RunGameLoop                                                    *)
(* ------------------------------------------------------------------ *)

\* The boards the game is run on: main's glider, and the empty board.
GameSeeds ==
    {{<<0, 1>>, <<1, 0>>, <<-1, -1>>, <<0, -1>>, <<1, -1>>}, {}}

\* main: Game(size, Board(initial_cells)), at the top of RunGameLoop.
InitGame ==
    /\ \E S \in GameSeeds :
          /\ Holds(BoardInit(seqOf(S)))
          /\ seed = S
          /\ ever = S
    /\ calls = 0
    /\ liveCalls = 0
    /\ NoSecondBoard
    /\ NoLoop
    /\ NoDraw
    /\ NoGame

\* RunGameLoop: the pending events go to ProcessEvent, which exits the program
\* on a QUIT event.
Events ==
    /\ at = "events"
    /\ ticks < MaxTicks
    /\ \E quit \in BOOLEAN : at' = IF quit THEN "exited" ELSE "tick"
    /\ UNCHANGED <<live, previous, state, min_x, max_x, min_y, max_y, seed, ever,
                   calls, liveCalls, secondVars, loopVars, drawVars,
                   ttn, ticks, undrawn>>

\* Game.Tick, as RunGameLoop calls it: count ttn down, or at 0 call
\* board.Generate_next_state() and set ttn to ttu.
TickEveryTick ==
    /\ at = "tick"
    /\ IF ttn # 0
       THEN /\ ttn' = ttn - 1
            /\ UNCHANGED <<live, previous, state, min_x, max_x, min_y, max_y,
                           ever, calls, liveCalls, undrawn>>
       ELSE /\ Generate
            /\ ttn' = ttn
            /\ undrawn' = undrawn + 1
    /\ ticks' = ticks + 1
    /\ at' = "draw"
    /\ UNCHANGED <<seed, secondVars, loopVars, drawVars>>

Tick ==
    /\ at = "tick"
    /\ IF ttn # 0
       THEN /\ ttn' = ttn - 1
            /\ UNCHANGED <<live, previous, state, min_x, max_x, min_y, max_y,
                           ever, calls, liveCalls, undrawn>>
       ELSE /\ Generate
            /\ ttn' = TTU
            /\ undrawn' = undrawn + 1
    /\ ticks' = ticks + 1
    /\ at' = "draw"
    /\ UNCHANGED <<seed, secondVars, loopVars, drawVars>>

\* Game.Draw, as RunGameLoop calls it, and the flip of the display: the program
\* ends on the exception if board.Draw raises.
GameDraw ==
    /\ at = "draw"
    /\ DrawBoard
    /\ undrawn' = 0
    /\ at' = IF raised' THEN "exited" ELSE "events"
    /\ UNCHANGED <<seed, ever, calls, liveCalls, secondVars, loopVars, ttn, ticks>>

NextGame == Events \/ Tick \/ GameDraw

SpecGame == InitGame /\ [][NextGame]_vars

(* ------------------------------------------------------------------ *)
(* Two boards, the second constructed from the first's seed moved       *)
(* ------------------------------------------------------------------ *)

\* The moves of the seed: by one cell, by a few on both axes, and beyond the
\* initial bounds.
ShiftOffsets ==
    {<<1, 0>>, <<-2, 3>>, <<INIT_MIN + INIT_MIN, INIT_MAX + INIT_MAX>>}

InitShift ==
    /\ \E S \in SUBSET SeedCells : \E o \in ShiftOffsets :
          /\ Holds(BoardInit(seqOf(S)))
          /\ other = BoardInit(seqOf(Shift(S, o[1], o[2])))
          /\ shift = o
          /\ seed = S
          /\ ever = S
    /\ cellsA = << >>
    /\ cellsB = << >>
    /\ calls = 0
    /\ liveCalls = 0
    /\ NoLoop
    /\ NoDraw
    /\ NoGame

NextShift == StepBoth

SpecShift == InitShift /\ [][NextShift]_vars

(* ------------------------------------------------------------------ *)
(* The Life rule, stated on the plane                                   *)
(* ------------------------------------------------------------------ *)

\* The 8 directions from a cell to its neighbours.
Directions ==
    {<<-1, -1>>, <<-1, 0>>, <<-1, 1>>, <<0, -1>>,
     <<0, 1>>, <<1, -1>>, <<1, 0>>, <<1, 1>>}

\* The number of the 8 neighbours of c that are in L.
LiveNeighbours(c, L) ==
    Cardinality({d \in Directions : <<c[1] + d[1], c[2] + d[2]>> \in L})

\* The Life rule at c: birth on exactly 3, survival on 2 or 3.
Alive(c, L) ==
    LET n == LiveNeighbours(c, L) IN n = 3 \/ (n = 2 /\ c \in L)

\* The part of the plane the rule is evaluated on: the tight box of L widened
\* by Margin on every side (a cell further away has no neighbour in L).
Plane(L) ==
    IF L = {} THEN {}
    ELSE {<<x, y>> :
            x \in (minOf({c[1] : c \in L}) - Margin)..(maxOf({c[1] : c \in L}) + Margin),
            y \in (minOf({c[2] : c \in L}) - Margin)..(maxOf({c[2] : c \in L}) + Margin)}

LifeSuccessor(L) == {c \in Plane(L) : Alive(c, L)}

\* Chebyshev distance at most 1.
Near(c, d) ==
    /\ c[1] - d[1] \in -1..1
    /\ c[2] - d[2] \in -1..1

(* ------------------------------------------------------------------ *)
(* Patterns                                                             *)
(* ------------------------------------------------------------------ *)

Glider == {<<0, 1>>, <<1, 0>>, <<-1, -1>>, <<0, -1>>, <<1, -1>>}
BlinkerH == {<<-1, 0>>, <<0, 0>>, <<1, 0>>}
BlinkerV == {<<0, -1>>, <<0, 0>>, <<0, 1>>}
Block == {<<0, 0>>, <<1, 0>>, <<0, 1>>, <<1, 1>>}

\* The tight box of the non-empty set S of cells.
TightBox(S) ==
    [min_x |-> minOf({c[1] : c \in S}), max_x |-> maxOf({c[1] : c \in S}),
     min_y |-> minOf({c[2] : c \in S}), max_y |-> maxOf({c[2] : c \in S})]

(* ------------------------------------------------------------------ *)
(* Claims                                                               *)
(* ------------------------------------------------------------------ *)

\* C1: a call of Generate_next_state made with live non-empty leaves live equal
\* to the Life successor of the old live set computed over the plane: a cell is
\* in the new live set iff it has exactly 3 neighbours in the old one, or
\* exactly 2 and is itself in the old one.
C1_LifeSuccessor ==
    [][live # {} => live' = LifeSuccessor(live)]_vars

\* A step has been made in which a cell was born, a cell died and a cell survived.
C1_Witness ==
    /\ state > 0
    /\ live \ previous # {}
    /\ previous \ live # {}
    /\ live \cap previous # {}

\* C2: extinction is absorbing: a call made with live empty changes neither live
\* nor the four bounds nor the generation counter.
C2_ExtinctionAbsorbing ==
    [][live = {} =>
         /\ live' = {}
         /\ <<min_x, max_x, min_y, max_y>>' = <<min_x, max_x, min_y, max_y>>
         /\ state' = state]_vars

\* A board that had live cells is extinct and has been stepped at least twice since.
C2_Witness ==
    /\ seed # {}
    /\ live = {}
    /\ calls >= state + 2

\* C3: the bounds contain every live cell in every state, and no call raises
\* min_x or min_y or lowers max_x or max_y.
C3_Contained ==
    \A c \in live : min_x <= c[1] /\ c[1] <= max_x /\ min_y <= c[2] /\ c[2] <= max_y

C3_BoundsMonotoneContain ==
    /\ []C3_Contained
    /\ [][/\ min_x' <= min_x
          /\ min_y' <= min_y
          /\ max_x' >= max_x
          /\ max_y' >= max_y]_vars

\* After some steps the live set is strictly narrower than the bounds, which
\* kept the extent of an earlier generation.
C3_Witness ==
    /\ state > 0
    /\ live # {}
    /\ min_x < TightBox(live).min_x
    /\ max_x > TightBox(live).max_x

\* C4: once the board has had a live cell, the bounds are the tight box of all
\* the cells that have been live so far, wherever the seed lies on the plane.
C4_TightBoxOfEver ==
    ever # {} =>
        /\ min_x = TightBox(ever).min_x
        /\ max_x = TightBox(ever).max_x
        /\ min_y = TightBox(ever).min_y
        /\ max_y = TightBox(ever).max_y

\* C5: the glider, after 4k calls, is the seed moved by (+k, -k), and it never
\* becomes extinct.
C5_GliderTranslation ==
    seed = Glider =>
        /\ live # {}
        /\ calls % 4 = 0 => live = Shift(Glider, calls \div 4, -(calls \div 4))

\* The glider after exactly 4 calls, as the set of cells named in the claim.
C5_Witness ==
    /\ seed = Glider
    /\ calls = 4
    /\ live = {<<1, 0>>, <<2, -1>>, <<0, -2>>, <<1, -2>>, <<2, -2>>}

\* C6: the blinker is horizontal after every even number of calls and vertical
\* after every odd number.
C6_BlinkerPeriod ==
    seed = BlinkerH =>
        live = IF calls % 2 = 0 THEN BlinkerH ELSE BlinkerV

\* The blinker after its second call, back to the horizontal set via the
\* vertical one.
C6_Witness ==
    /\ seed = BlinkerH
    /\ calls = 2
    /\ previous = BlinkerV
    /\ live = BlinkerH

\* C7: the block stays exactly the block, and the generation counter advances
\* by one with every call.
C7_BlockStill ==
    seed = Block => (live = Block /\ state = calls)

\* The block after at least one call.
C7_Witness ==
    /\ seed = Block
    /\ calls >= 1
    /\ previous = Block

\* C8: every cell that the Life rule, evaluated over the plane, makes alive in
\* the next generation is in expansion(live); and no cell alive after a call is
\* further than Chebyshev distance 1 from every cell live before it.
C8_Sufficient ==
    \A c \in Plane(live) : Alive(c, live) => c \in expansion(live)

C8_CandidateSufficiency ==
    /\ []C8_Sufficient
    /\ [][\A c \in live' : \E d \in live : Near(c, d)]_vars

\* A cell was born outside the tight box of the previous generation.
C8_Witness ==
    /\ state > 0
    /\ \E c \in live \ previous :
          \/ c[1] < TightBox(previous).min_x
          \/ c[1] > TightBox(previous).max_x
          \/ c[2] < TightBox(previous).min_y
          \/ c[2] > TightBox(previous).max_y

\* C9: the generation counter starts at 0, never decreases, and equals the
\* number of calls made while live was non-empty: such a call adds exactly 1,
\* also when it leaves live empty, and a call made with live empty adds nothing.
C9_GenerationCounts ==
    /\ [](calls = 0 => state = 0)
    /\ [](state = liveCalls)
    /\ [][state' = IF live # {} THEN state + 1 ELSE state]_vars

\* A call made with live non-empty left live empty and was counted, and calls
\* made since were not.
C9_Witness ==
    /\ live = {}
    /\ previous # {}
    /\ state >= 1
    /\ calls > state

\* C10: construction yields live equal to the set of the distinct cells of the
\* sequence, previous empty and generation 0; two boards constructed from
\* sequences with the same set of cells are in the same state after
\* construction and after any equal number of calls.
C10_ConstructionBySet ==
    /\ calls = 0 => (live = setOf(cellsA) /\ previous = {} /\ state = 0)
    /\ setOf(cellsA) = setOf(cellsB) => other = Self

\* Two boards built from sequences that differ in order and in multiplicity,
\* after a call that changed the live set.
C10_Witness ==
    /\ Len(cellsA) > Len(cellsB)
    /\ Len(cellsB) > 1
    /\ cellsA[1] # cellsB[1]
    /\ calls = 1
    /\ live # previous
    /\ live # {}

\* C11: inside a call made with live non-empty, previous is the live set the
\* call began with, and the live set under construction holds exactly the
\* visited candidates that transition against that snapshot; the call ends with
\* previous still that snapshot; a call made with live empty leaves previous as
\* it was.
C11_LoopReadsSnapshot ==
    pc = "loop" =>
        /\ previous = before.live
        /\ live = {c \in expansion(before.live) \ todo : transition(c, before.live)}

C11_PreviousIsSnapshot ==
    /\ []C11_LoopReadsSnapshot
    /\ [][(pc = "loop" /\ pc' = "idle") => previous' = before.live]_vars
    /\ [][(pc = "idle" /\ live = {}) => previous' = previous]_vars

\* The loop is under way, with a born cell already in the new live set and a
\* cell of the snapshot still to be visited.
C11_Witness ==
    /\ pc = "loop"
    /\ live \ previous # {}
    /\ todo \cap previous # {}

\* C13: whatever the order in which the candidates of a call are visited, the
\* call ends with the board that the call made in one piece produces from the
\* board it began with: the live set at the end is the same for every order.
C13_OrderIndependent ==
    (pc = "idle" /\ calls > 0) => Self = Generate_next_state(before)

\* A call has ended after its loop visited the candidates, and it changed the
\* live set into another non-empty one.
C13_Witness ==
    /\ pc = "idle"
    /\ calls > 0
    /\ before.live # {}
    /\ live # {}
    /\ live # before.live

\* C12: a call that takes a non-empty live set to the empty set leaves the four
\* bounds as they were, makes previous the live set from before the call and
\* adds 1 to the generation counter.
C12_DyingStepKeepsBounds ==
    [][(live # {} /\ live' = {}) =>
          /\ <<min_x, max_x, min_y, max_y>>' = <<min_x, max_x, min_y, max_y>>
          /\ previous' = live
          /\ state' = state + 1]_vars

\* A pair of cells has just died out in the board's first call, and the bounds
\* are still the box of the pair.
C12_Witness ==
    /\ live = {}
    /\ Cardinality(previous) = 2
    /\ state = 1
    /\ calls = 1
    /\ min_x = TightBox(previous).min_x
    /\ max_x = TightBox(previous).max_x
    /\ min_y = TightBox(previous).min_y
    /\ max_y = TightBox(previous).max_y

\* C14 as stated: every candidate of a call has at least one of its 8
\* neighbours in the live set.
C14_NoCandidateWithoutNeighbour ==
    \A c \in expansion(live) : LiveNeighbours(c, live) >= 1

\* C14 as amended: every candidate of a call is itself in the live set or has
\* at least one of its 8 neighbours in it; the candidates with no live
\* neighbour are live cells, and the rule leaves them dead.
C14_CandidateLiveOrNeighboured ==
    \A c \in expansion(live) :
        /\ c \in live \/ LiveNeighbours(c, live) >= 1
        /\ LiveNeighbours(c, live) = 0 => (c \in live /\ ~transition(c, live))

\* A call has been made on a live set that held a cell with no live neighbour:
\* the cell was a candidate of that call, and the call left it dead while other
\* cells live on.
C14_Witness ==
    /\ state >= 1
    /\ live # {}
    /\ \E c \in previous :
          /\ LiveNeighbours(c, previous) = 0
          /\ c \in expansion(previous)
          /\ c \notin live

\* C16: a call of Board.Draw leaves live, previous and the generation counter
\* as they were; no call, of Draw or of Generate_next_state, raises a minimum
\* or lowers a maximum; the bounds contain every live cell in every state; and
\* once Draw has been called the box is at least 50 wide and 50 high.
C16_DrawnBoxWide ==
    drawn > 0 => (max_x - min_x + 1 >= 50 /\ max_y - min_y + 1 >= 50)

C16_DrawOnlyWidens ==
    /\ [][drawn' # drawn =>
            (live' = live /\ previous' = previous /\ state' = state)]_vars
    /\ [][/\ min_x' <= min_x
          /\ min_y' <= min_y
          /\ max_x' >= max_x
          /\ max_y' >= max_y]_vars
    /\ []C3_Contained
    /\ []C16_DrawnBoxWide

\* Draw has widened the box of a board that lies beyond the initial bounds on
\* the x axis only, and the board has been stepped since and has live cells.
C16_Witness ==
    /\ drawn > 0
    /\ state > 0
    /\ live # {}
    /\ max_y - min_y + 1 = 51
    /\ max_x - min_x + 1 > 51

\* C17: in every state the divisors width + 1 and height + 1 of Draw are not 0,
\* and Draw has not raised; and once the board has had a live cell,
\* min_x <= max_x and min_y <= max_y.
C17_DivisorsNonZero ==
    /\ max_x - min_x + 2 # 0
    /\ max_y - min_y + 2 # 0
    /\ ~raised
    /\ ever # {} => (min_x <= max_x /\ min_y <= max_y)

\* Draw has been called on the board of the empty seed while its bounds were
\* the initial ones, max below min: the divisors were negative, and so is pixels.
C17_Witness ==
    /\ seed = {}
    /\ drawn > 0
    /\ calls > 0
    /\ pixels < 0
    /\ ~raised

\* C15: Tick calls Generate_next_state on the 101st tick for the first time and
\* from then on on exactly every 3rd tick; ttn stays in 0..100; and a step is
\* made only when every earlier step has been followed by a Draw.
C15_TtnInRange == ttn \in 0..100

C15_DriverCadence ==
    /\ []C15_TtnInRange
    /\ [][ticks' # ticks =>
            (calls' # calls <=> (ticks' >= 101 /\ (ticks' - 101) % 3 = 0))]_vars
    /\ [](undrawn <= 1)
    /\ [][calls' # calls => (undrawn = 0 /\ undrawn' = 1)]_vars
    /\ [][(undrawn = 1 /\ ticks' = ticks /\ at' # "exited") =>
            (drawn' = drawn + 1 /\ undrawn' = 0)]_vars

\* The loop is back at its top after 107 ticks, with the steps of ticks 101,
\* 104 and 107 made and the last one drawn.
C15_Witness ==
    /\ ticks = 107
    /\ calls = 3
    /\ state = 3
    /\ drawn = 107
    /\ undrawn = 0
    /\ ttn = 2
    /\ at = "events"

\* C18: after any number of calls made on both, the live set of the board whose
\* seed was moved by (dx, dy) is the live set of the other board moved by
\* (dx, dy), and the two generation counters are equal.
C18_TranslationInvariant ==
    /\ other.live = Shift(live, shift[1], shift[2])
    /\ other.state = state

\* Both boards have been stepped twice and hold live cells that the last call
\* changed.
C18_Witness ==
    /\ calls >= 2
    /\ live # {}
    /\ live # previous
    /\ other.live # live
    /\ other.live # other.previous
    /\ other.state = 2

====
